---- MODULE Spec2Model ----
(***************************************************************************)
(* Model of youtube_hydrator.py: the cache (load_cache, save_cache,        *)
(* get_cached_metadata, cache_metadata, get_youtube_metadata), the pure    *)
(* helpers (extract_youtube_id, sanitize_filename, create_new_title,       *)
(* parse_youtube_date) and the loop of process_library_items.              *)
(*                                                                         *)
(* Strings are sequences of one-character strings.  Python's None is a     *)
(* record [none |-> TRUE] for dictionaries and datetimes, the empty        *)
(* sequence for strings that the code only tests for truth, and NoDate     *)
(* for a missing calendar date.                                            *)
(***************************************************************************)
EXTENDS Integers, Sequences, FiniteSets, TLC

\* ------------------------------------------------------------------ bounds
\* Longest library of the short specification (Spec).
MaxItems == 2
\* Longest library of the long specification (SpecLong).
MaxLong == 11
\* Latest calendar day of the dates given to the helpers (SpecPure).
MaxDay == 3
\* Length of the library of distinct videos (SpecLoss).
MaxLoss == 10

\* ------------------------------------------------------- program constants
\* processed_count % 10 == 0
CheckpointEvery == 10
\* {11} in the five patterns of extract_youtube_id
IdLen == 11
\* len(text) > 200
MaxTitleLen == 200
\* text[:197] + "..."
KeptTitleLen == 197

\* ------------------------------------------------------------ Python values
NoneValue == [none |-> TRUE]
NoDate == 0

\* ----------------------------------------------------------- string helpers
\* [a-zA-Z0-9_-]
IdAlphabet ==
    {"a", "b", "c", "d", "e", "f", "g", "h", "i", "j", "k", "l", "m",
     "n", "o", "p", "q", "r", "s", "t", "u", "v", "w", "x", "y", "z"}
    \cup {"A", "B", "C", "D", "E", "F", "G", "H", "I", "J", "K", "L", "M",
          "N", "O", "P", "Q", "R", "S", "T", "U", "V", "W", "X", "Y", "Z"}
    \cup {"0", "1", "2", "3", "4", "5", "6", "7", "8", "9", "_", "-"}

RECURSIVE Replace(_, _, _)
\* str.replace(old, new) for a one-character old
Replace(text, old, new) ==
    IF text = <<>> THEN <<>>
    ELSE (IF Head(text) = old THEN new ELSE <<Head(text)>>)
             \o Replace(Tail(text), old, new)

\* a dictionary that replaces the colon by a dash alone
replacements_ColonDash ==
    << <<"/", <<"-">> >>, <<"\\", <<"-">> >>, <<":", <<"-">> >>,
       <<"*", <<>> >>, <<"?", <<>> >>, <<"\"", <<"'">> >>,
       <<"<", <<"(">> >>, <<">", <<")">> >>, <<"|", <<"-">> >>,
       <<"\n", <<" ">> >>, <<"\r", <<" ">> >>, <<"\t", <<" ">> >> >>

\* the replacements dictionary of sanitize_filename, in insertion order
replacements ==
    << <<"/", <<"-">> >>, <<"\\", <<"-">> >>, <<":", <<" ", "-">> >>,
       <<"*", <<>> >>, <<"?", <<>> >>, <<"\"", <<"'">> >>,
       <<"<", <<"(">> >>, <<">", <<")">> >>, <<"|", <<"-">> >>,
       <<"\n", <<" ">> >>, <<"\r", <<" ">> >>, <<"\t", <<" ">> >> >>

RECURSIVE ReplaceAll(_, _)
ReplaceAll(text, k) ==
    IF k > Len(replacements) THEN text
    ELSE ReplaceAll(Replace(text, replacements[k][1], replacements[k][2]), k + 1)

IsSpace(c) == c \in {" ", "\n", "\r", "\t"}

RECURSIVE CollapseSpaces(_)
\* re.sub(r'\s+', ' ', text)
CollapseSpaces(text) ==
    IF text = <<>> THEN <<>>
    ELSE IF IsSpace(Head(text))
         THEN IF Len(text) > 1 /\ IsSpace(text[2])
              THEN CollapseSpaces(Tail(text))
              ELSE <<" ">> \o CollapseSpaces(Tail(text))
         ELSE <<Head(text)>> \o CollapseSpaces(Tail(text))

RECURSIVE StripLeft(_)
StripLeft(text) ==
    IF text # <<>> /\ IsSpace(Head(text)) THEN StripLeft(Tail(text)) ELSE text

RECURSIVE StripRight(_)
StripRight(text) ==
    IF text # <<>> /\ IsSpace(text[Len(text)])
    THEN StripRight(SubSeq(text, 1, Len(text) - 1))
    ELSE text

Strip(text) == StripRight(StripLeft(text))

sanitize_filename(text) ==
    LET cleaned == Strip(CollapseSpaces(ReplaceAll(text, 1)))
    IN  IF Len(cleaned) > MaxTitleLen
        THEN SubSeq(cleaned, 1, KeptTitleLen) \o <<".", ".", ".">>
        ELSE cleaned

create_new_title(channel_name, video_title) ==
    sanitize_filename(channel_name) \o <<" ", "-", " ">> \o sanitize_filename(video_title)

\* ------------------------------------------------------- extract_youtube_id
RECURSIVE LastSlash(_, _)
LastSlash(path, k) ==
    IF k = 0 THEN 0 ELSE IF path[k] = "/" THEN k ELSE LastSlash(path, k - 1)

\* os.path.basename
Basename(path) == SubSeq(path, LastSlash(path, Len(path)) + 1, Len(path))

\* one pattern: an opening string, IdLen characters of the alphabet, a closing string
patterns ==
    << [open |-> <<"[">>, close |-> <<"]">>],
       [open |-> <<"(">>, close |-> <<")">>],
       [open |-> <<"_">>, close |-> <<".", "m", "p", "4">>],
       [open |-> <<"_">>, close |-> <<".", "m", "k", "v">>],
       [open |-> <<"_">>, close |-> <<".", "a", "v", "i">>] >>

MatchesAt(name, pat, p) ==
    LET o == Len(pat.open)
        c == Len(pat.close)
    IN  /\ p + o + IdLen + c - 1 <= Len(name)
        /\ SubSeq(name, p, p + o - 1) = pat.open
        /\ \A j \in (p + o)..(p + o + IdLen - 1) : name[j] \in IdAlphabet
        /\ SubSeq(name, p + o + IdLen, p + o + IdLen + c - 1) = pat.close

\* re.search: the leftmost position where the pattern matches, 0 when none
Search(name, pat) ==
    LET hits == {p \in 1..Len(name) : MatchesAt(name, pat, p)}
    IN  IF hits = {} THEN 0 ELSE CHOOSE p \in hits : \A q \in hits : p <= q

RECURSIVE FirstPattern(_, _)
FirstPattern(name, k) ==
    IF k > Len(patterns) THEN <<>>
    ELSE LET p == Search(name, patterns[k])
         IN  IF p > 0
             THEN SubSeq(name, p + Len(patterns[k].open),
                         p + Len(patterns[k].open) + IdLen - 1)
             ELSE FirstPattern(name, k + 1)

\* the identifier, or the empty sequence for None
extract_youtube_id(file_path) ==
    IF file_path = <<>> THEN <<>> ELSE FirstPattern(Basename(file_path), 1)

\* an extraction that warns whenever it returns None
extract_youtube_id_warnings_OnEveryNone(file_path) ==
    IF extract_youtube_id(file_path) = <<>> THEN 1 ELSE 0

\* the warning-level diagnostics extract_youtube_id emits: none on the early
\* return of line 90, none on a match (a debug line), one at line 112
extract_youtube_id_warnings(file_path) ==
    IF file_path = <<>> THEN 0
    ELSE IF FirstPattern(Basename(file_path), 1) = <<>> THEN 1 ELSE 0

\* ------------------------------------------------------- parse_youtube_date
\* a parser that reads a string it cannot parse as the first day
parse_youtube_date_Lenient(published_at) ==
    IF published_at.form = "empty" THEN NoneValue
    ELSE IF published_at.form = "garbage" THEN [day |-> 1, hour |-> 0, off |-> 0]
    ELSE [day  |-> published_at.day,
          hour |-> published_at.hour,
          off  |-> IF published_at.form = "zulu" THEN 0 ELSE published_at.off]

\* A published_at string is kept by its shape: "empty", "zulu" (ends in Z),
\* "offset" (ends in +hh:00 or -hh:00) or "garbage" (fromisoformat raises
\* ValueError); day and hour are the wall-clock fields written in the string.
parse_youtube_date(published_at) ==
    IF published_at.form = "empty" THEN NoneValue
    ELSE IF published_at.form = "garbage" THEN NoneValue
    ELSE [day  |-> published_at.day,
          hour |-> published_at.hour,
          off  |-> IF published_at.form = "zulu" THEN 0 ELSE published_at.off]

\* datetime.date(): the calendar day of the wall-clock fields
DateOf(dt) == dt.day

\* ------------------------------------------------------------ the provider
IdA == [i \in 1..IdLen |-> "a"]
IdB == [i \in 1..IdLen |-> "b"]

\* the snippet the provider holds for each video (unchanged during a session)
Snippet(video_id) ==
    IF video_id = IdA
    THEN [title        |-> <<"T", ":", " ", "1">>,
          channelTitle |-> <<"A", "/", "B">>,
          description  |-> <<"d">>,
          publishedAt  |-> [form |-> "zulu", day |-> 2, hour |-> 10, off |-> 0]]
    ELSE [title        |-> <<"U">>,
          channelTitle |-> <<"C">>,
          description  |-> <<>>,
          publishedAt  |-> [form |-> "empty", day |-> 0, hour |-> 0, off |-> 0]]

\* the metadata dictionary get_youtube_metadata builds from a response
MetadataOf(video_info) ==
    [title        |-> video_info.title,
     channel_name |-> video_info.channelTitle,
     description  |-> video_info.description,
     published_at |-> video_info.publishedAt]

\* outcomes of request.execute(): a response with items, a response without
\* items, HttpError 403, another HttpError, any other exception
ProviderFailures == {"notfound", "quota", "httperror", "exception"}

\* ------------------------------------------------------------ library items
PathA == <<"v", "/", "x", "[">> \o IdA \o <<"]">>
PathB == <<"y", "_">> \o IdB \o <<".", "m", "k", "v">>
PathNoId == <<"[">> \o IdA \o <<"]", "/", "z", ".", "m", "p", "4">>

Old == <<"o">>
TitleA == create_new_title(Snippet(IdA).channelTitle, Snippet(IdA).title)
TitleB == create_new_title(Snippet(IdB).channelTitle, Snippet(IdB).title)

Item(media, file, title, summary, date) ==
    [media |-> media, file |-> file, title |-> title,
     summary |-> summary, originallyAvailableAt |-> date]

\* an item that needs nothing: video A, already hydrated
Hydrated == Item(TRUE, PathA, TitleA, <<"d">>, 2)

\* no media file; no identifier in the file name; video A, nothing set;
\* video A, hydrated; video B, old title and a summary; video B, hydrated
\* but for a summary the video's empty description cannot replace
ItemSet ==
    { Item(FALSE, <<>>, Old, <<>>, NoDate),
      Item(TRUE, PathNoId, Old, <<>>, NoDate),
      Item(TRUE, PathA, Old, <<>>, NoDate),
      Hydrated,
      Item(TRUE, PathB, Old, Old, NoDate),
      Item(TRUE, PathB, TitleB, Old, 1) }

RECURSIVE SeqsUpTo(_, _)
SeqsUpTo(S, n) ==
    IF n = 0 THEN {<<>>}
    ELSE LET shorter == SeqsUpTo(S, n - 1)
         IN  shorter \cup {Append(s, x) : s \in {t \in shorter : Len(t) = n - 1}, x \in S}

\* libraries of the long specification: any first item, then hydrated items
LongFirsts ==
    { Hydrated,
      Item(FALSE, <<>>, Old, <<>>, NoDate),
      Item(TRUE, PathNoId, Old, <<>>, NoDate),
      Item(TRUE, PathA, Old, <<>>, NoDate),
      Item(TRUE, PathB, Old, Old, NoDate) }

LongLibraries ==
    {[i \in 1..n |-> IF i = 1 THEN first ELSE Hydrated] :
        n \in 0..MaxLong, first \in LongFirsts}

\* a library of distinct videos: identifiers that differ in their last
\* character, each item already carrying what the provider holds for it
IdTail == <<"0", "1", "2", "3", "4", "5", "6", "7", "8", "9",
            "A", "B", "C", "D", "E", "F">>
DistinctId(k) == [i \in 1..IdLen |-> IF i < IdLen THEN "c" ELSE IdTail[k]]
DistinctItem(k) ==
    Item(TRUE, <<"[">> \o DistinctId(k) \o <<"]">>, TitleB, <<>>, NoDate)

\* libraries of the loss specification: the library of distinct videos, and
\* short libraries with an unusable item or a repeated video
LossLibraries ==
    {[i \in 1..MaxLoss |-> DistinctItem(i)]}
    \cup {<<first>> : first \in LongFirsts}
    \cup {<<Hydrated, Hydrated>>}

\* --------------------------------------------------- the persisted document
EmptyMap == <<>>
Doc(kind, entries) == [kind |-> kind, entries |-> entries]

\* the document before the first run: no file; a file that cannot be opened;
\* a file that is no JSON; a file that is no UTF-8.  (A mapping on disk is
\* what a run's save_cache leaves for the next run.)
InitialDocs ==
    { Doc("missing", EmptyMap), Doc("unreadable", EmptyMap),
      Doc("badjson", EmptyMap), Doc("badutf8", EmptyMap) }

\* what reading the document raises inside load_cache ("none": nothing)
LoadError(doc) ==
    CASE doc.kind = "unreadable" -> "IOError"
      [] doc.kind = "badjson"    -> "JSONDecodeError"
      [] doc.kind = "badutf8"    -> "UnicodeDecodeError"
      [] OTHER                   -> "none"

\* except (json.JSONDecodeError, IOError)
LoadCaught == {"JSONDecodeError", "IOError"}

load_cache(doc) ==
    IF doc.kind = "missing" THEN [raised |-> FALSE, cache |-> EmptyMap]
    ELSE IF LoadError(doc) = "none" THEN [raised |-> FALSE, cache |-> doc.entries]
    ELSE IF LoadError(doc) \in LoadCaught THEN [raised |-> FALSE, cache |-> EmptyMap]
    ELSE [raised |-> TRUE, cache |-> EmptyMap]

\* outcomes of the write in save_cache: written; open() raises IOError and the
\* document is untouched; the write raises IOError after open() truncated it
WriteOutcomes == {"ok", "openfail", "writefail"}

\* a save whose successful write leaves out the entries
save_cache_DropsEntries(doc, c, w) ==
    CASE w = "ok"        -> Doc("map", EmptyMap)
      [] w = "openfail"  -> doc
      [] w = "writefail" -> Doc("badjson", EmptyMap)

\* the document after save_cache(cache); IOError is caught and logged
save_cache(doc, c, w) ==
    CASE w = "ok"        -> Doc("map", c)
      [] w = "openfail"  -> doc
      [] w = "writefail" -> Doc("badjson", EmptyMap)

\* a lookup that never finds the entry
get_cached_metadata_Miss(c, video_id) == NoneValue

get_cached_metadata(c, video_id) ==
    IF video_id \in DOMAIN c THEN c[video_id] ELSE NoneValue

\* a write that evicts every other entry
cache_metadata_Evicts(c, video_id, metadata) == [k \in {video_id} |-> metadata]

cache_metadata(c, video_id, metadata) ==
    [k \in DOMAIN c \cup {video_id} |-> IF k = video_id THEN metadata ELSE c[k]]

\* -------------------------------------------------------------------- state
VARIABLES
    library,          \* the media server's items, in collection order
    disk,             \* the persisted cache document
    cache,            \* the in-memory cache of the current run
    pc,               \* where process_library_items is
    session,          \* "first" or "second" run over this library
    dry_run,          \* the run's mode
    idx,              \* position of the for loop (next item)
    processed_count, updated_count, failed_count,
    cache_hits, api_calls, cache_saves,
    \* history of the current run, read by the properties only
    library0,         \* the library when the run started
    last,             \* the item handled last: result and decision flags
    clean,            \* no item was skipped and no mutation call threw so far
    skips,            \* items abandoned by a continue
    provider_calls,   \* per identifier: times request.execute() was invoked
    provider_answers, \* identifiers the provider answered with a snippet
    edits,            \* mutation calls issued: item, field, succeeded
    last_flush,       \* items handled when save_cache was last called, -1: never
    last_write,       \* outcome of that write
    failed_writes,    \* save_cache calls of the run whose write failed
    prev_run,         \* the previous run: "none"; "hydrated" (live, complete,
                      \* no failure, some mutation call); "clean" (the same
                      \* without any call); "other"
    prev_would_update,\* the updated counter of the previous run when that run
                      \* was a dry run that skipped no item, else -1
    trial             \* the last application of a helper on its own:
                      \* the function, its arguments and what it gave

\* no helper was applied on its own
NoTrial == [fn |-> "none"]

NoFlags(i, res) ==
    [i |-> i, res |-> res, hit |-> FALSE, slept |-> FALSE,
     title_changed |-> FALSE, summary_changed |-> FALSE, date_changed |-> FALSE]

counters == <<processed_count, updated_count, failed_count,
              cache_hits, api_calls, cache_saves>>
history == <<library0, last, clean, skips, provider_calls, provider_answers,
             edits, last_flush, last_write, failed_writes, prev_run,
                   prev_would_update, trial>>
vars == <<library, disk, cache, pc, session, dry_run, idx, counters, history>>

Ids == {IdA, IdB} \cup {DistinctId(k) : k \in 1..MaxLoss}

InitCommon ==
    /\ disk \in InitialDocs
    /\ cache = EmptyMap
    /\ pc = "idle"
    /\ dry_run = TRUE
    /\ idx = 0
    /\ processed_count = 0 /\ updated_count = 0 /\ failed_count = 0
    /\ cache_hits = 0 /\ api_calls = 0 /\ cache_saves = 0
    /\ library0 = library
    /\ last = NoFlags(0, "none")
    /\ clean = TRUE
    /\ skips = 0
    /\ provider_calls = [v \in Ids |-> 0]
    /\ provider_answers = {}
    /\ edits = {}
    /\ last_flush = -1
    /\ last_write = "none"
    /\ failed_writes = 0
    /\ prev_run = "none"
    /\ prev_would_update = -1
    /\ trial = NoTrial

\* short libraries of any items, run twice in a row
Init ==
    /\ library \in SeqsUpTo(ItemSet, MaxItems)
    /\ session = "first"
    /\ InitCommon

\* long libraries, run once, starting without a cache document
InitLong ==
    /\ library \in LongLibraries
    /\ session = "second"
    /\ InitCommon
    /\ disk.kind = "missing"

\* a library of distinct videos, run once, starting without a cache document
InitLoss ==
    /\ library \in LossLibraries
    /\ session = "second"
    /\ InitCommon
    /\ disk.kind = "missing"

\* ----------------------------------------------------------- the decision
\* lines 349-393: the three flags for one item and its metadata
Decide(item, metadata) ==
    LET new_title == create_new_title(metadata.channel_name, metadata.title)
        current_summary == item.summary
        video_description == metadata.description
        youtube_publish_date == parse_youtube_date(metadata.published_at)
        current_date == item.originallyAvailableAt
    IN  [title_changed   |-> item.title # new_title,
         summary_changed |-> current_summary # video_description,
         date_changed    |->
             IF youtube_publish_date # NoneValue
             THEN IF current_date = NoDate THEN TRUE
                  ELSE DateOf(youtube_publish_date) # current_date
             ELSE FALSE]

AnyChanged(d) == d.title_changed \/ d.summary_changed \/ d.date_changed

\* calls that set the summary even when the new description is empty
MutationCalls_EmptySummary(d, metadata) ==
    (IF d.title_changed THEN <<"title">> ELSE <<>>)
    \o (IF d.summary_changed THEN <<"summary">> ELSE <<>>)
    \o (IF d.date_changed /\ parse_youtube_date(metadata.published_at) # NoneValue
        THEN <<"publish date">> ELSE <<>>)

\* lines 398-407: the mutation calls the live branch issues, in order
MutationCalls(d, metadata) ==
    (IF d.title_changed THEN <<"title">> ELSE <<>>)
    \o (IF d.summary_changed /\ metadata.description # <<>>
        THEN <<"summary">> ELSE <<>>)
    \o (IF d.date_changed /\ parse_youtube_date(metadata.published_at) # NoneValue
        THEN <<"publish date">> ELSE <<>>)

\* an edit that stores the video's raw title instead of the composed one
Edited_RawTitle(item, metadata, done) ==
    [item EXCEPT
        !.title = IF "title" \in done THEN metadata.title ELSE @,
        !.summary = IF "summary" \in done THEN metadata.description ELSE @,
        !.originallyAvailableAt =
            IF "publish date" \in done
            THEN DateOf(parse_youtube_date(metadata.published_at)) ELSE @]

\* the item after the calls named in done succeeded
Edited(item, metadata, done) ==
    [item EXCEPT
        !.title = IF "title" \in done
                  THEN create_new_title(metadata.channel_name, metadata.title) ELSE @,
        !.summary = IF "summary" \in done THEN metadata.description ELSE @,
        !.originallyAvailableAt =
            IF "publish date" \in done
            THEN DateOf(parse_youtube_date(metadata.published_at)) ELSE @]

\* an update that undoes the calls made before the one that threw
AfterUpdate_Rollback(item, metadata, calls, fail) ==
    IF fail = 0 THEN Edited(item, metadata, {calls[j] : j \in 1..Len(calls)})
    ELSE item

\* the item after an update in which the call number fail threw (0: none threw)
AfterUpdate(item, metadata, calls, fail) ==
    Edited(item, metadata,
           {calls[j] : j \in 1..(IF fail = 0 THEN Len(calls) ELSE fail - 1)})

\* a periodic save that is never due
CheckpointDue_Never(processed) == FALSE

\* a periodic save that is due half as often
CheckpointDue_Late(processed) == processed % (2 * CheckpointEvery) = 0

\* line 431: whether the periodic save is due
CheckpointDue(processed) == processed % CheckpointEvery = 0

\* lines 436-437: time.sleep(0.1) if not cached_metadata
Sleeps(hit) == ~hit

Flags(i, res, d, hit) ==
    [i |-> i, res |-> res, hit |-> hit, slept |-> Sleeps(hit),
     title_changed |-> d.title_changed,
     summary_changed |-> d.summary_changed, date_changed |-> d.date_changed]

\* lines 395-428 for one choice of the call that throws (0: none throws)
Update(item, d, metadata, calls, fail, hit) ==
    LET threw == fail # 0
        res   == IF ~dry_run /\ AnyChanged(d)
                 THEN IF threw THEN "mutfail"
                      ELSE IF calls # <<>> THEN "updated" ELSE "nochange"
                 ELSE IF dry_run /\ AnyChanged(d) THEN "wouldupdate" ELSE "nochange"
    IN  /\ library' = [library EXCEPT ![idx] = AfterUpdate(item, metadata, calls, fail)]
        /\ edits' = edits \cup
              {[i |-> idx, field |-> calls[j], ok |-> (fail = 0 \/ j < fail)] :
                  j \in 1..(IF fail = 0 THEN Len(calls) ELSE fail)}
        /\ updated_count' = IF res \in {"updated", "wouldupdate"}
                            THEN updated_count + 1 ELSE updated_count
        /\ failed_count' = IF threw THEN failed_count + 1 ELSE failed_count
        /\ processed_count' = processed_count + 1
        /\ last' = Flags(idx, res, d, hit)
        /\ clean' = (clean /\ ~threw)
        /\ UNCHANGED skips

\* lines 430-433: the periodic save, c being the cache after the lookup
Checkpoint(c) ==
    IF CheckpointDue(processed_count + 1)
    THEN /\ \E w \in WriteOutcomes :
               /\ disk' = save_cache(disk, c, w)
               /\ last_write' = w
               /\ failed_writes' = failed_writes + (IF w = "ok" THEN 0 ELSE 1)
         /\ cache_saves' = cache_saves + 1
         /\ last_flush' = idx
    ELSE UNCHANGED <<disk, cache_saves, last_flush, last_write, failed_writes>>

\* an update that issues the mutation calls in dry-run mode too
Apply_IgnoresDryRun(metadata, c, hit) ==
    LET item  == library[idx]
        d     == Decide(item, metadata)
        calls == IF AnyChanged(d) THEN MutationCalls(d, metadata) ELSE <<>>
    IN  /\ cache' = c
        /\ \E fail \in 0..Len(calls) : Update(item, d, metadata, calls, fail, hit)
        /\ Checkpoint(c)
        /\ idx' = idx + 1

\* lines 349-437: everything after the metadata of item idx is known;
\* c is the cache after the lookup
Apply(metadata, c, hit) ==
    LET item  == library[idx]
        d     == Decide(item, metadata)
        calls == IF ~dry_run /\ AnyChanged(d)
                 THEN MutationCalls(d, metadata) ELSE <<>>
    IN  /\ cache' = c
        /\ \E fail \in 0..Len(calls) : Update(item, d, metadata, calls, fail, hit)
        /\ Checkpoint(c)
        /\ idx' = idx + 1

\* a continue that counts the item as processed too
Skip_CountsProcessed(res) ==
    /\ failed_count' = failed_count + 1
    /\ processed_count' = processed_count + 1
    /\ last' = NoFlags(idx, res)
    /\ clean' = FALSE
    /\ skips' = skips + 1
    /\ idx' = idx + 1
    /\ UNCHANGED <<library, disk, pc, session, dry_run,
                   updated_count, cache_hits, api_calls, cache_saves,
                   library0, edits, last_flush, last_write, failed_writes,
                   prev_run,
                   prev_would_update, trial>>

\* a continue after failed_count += 1 (lines 319-331, 344-347, 439-442)
Skip(res) ==
    /\ failed_count' = failed_count + 1
    /\ last' = NoFlags(idx, res)
    /\ clean' = FALSE
    /\ skips' = skips + 1
    /\ idx' = idx + 1
    /\ UNCHANGED <<library, disk, pc, session, dry_run, processed_count,
                   updated_count, cache_hits, api_calls, cache_saves,
                   library0, edits, last_flush, last_write, failed_writes,
                   prev_run,
                   prev_would_update, trial>>

InLoop == pc = "loop" /\ idx <= Len(library)

HasMedia == library[idx].media
youtube_id == extract_youtube_id(library[idx].file)

\* ------------------------------------------------------------------ actions
\* process_library_items(library, youtube_service, dry_run): a run starts
Call ==
    /\ pc = "idle" \/ (pc = "done" /\ session = "first")
    /\ session' = IF pc = "idle" THEN session ELSE "second"
    /\ prev_run' = IF pc = "idle" THEN "none"
                   ELSE IF ~dry_run /\ clean
                        THEN IF edits = {} THEN "clean" ELSE "hydrated"
                        ELSE "other"
    /\ prev_would_update' = IF pc = "done" /\ dry_run /\ clean /\ Len(library) > 0
                            THEN updated_count ELSE -1
    /\ \E mode \in BOOLEAN : dry_run' = mode
    /\ pc' = "start"
    /\ cache' = EmptyMap
    /\ idx' = 0
    /\ processed_count' = 0 /\ updated_count' = 0 /\ failed_count' = 0
    /\ cache_hits' = 0 /\ api_calls' = 0 /\ cache_saves' = 0
    /\ library0' = library
    /\ last' = NoFlags(0, "none")
    /\ clean' = TRUE
    /\ skips' = 0
    /\ provider_calls' = [v \in Ids |-> 0]
    /\ provider_answers' = {}
    /\ edits' = {}
    /\ last_flush' = -1
    /\ last_write' = "none"
    /\ failed_writes' = 0
    /\ UNCHANGED <<library, disk, trial>>

\* line 297: cache = load_cache(), outside the try of line 300
LoadCache ==
    /\ pc = "start"
    /\ LET r == load_cache(disk)
       IN  /\ cache' = r.cache
           /\ pc' = IF r.raised THEN "raised" ELSE "fetch"
    /\ UNCHANGED <<library, disk, session, dry_run, idx, counters, history>>

\* lines 303-307: library.all() returns; an empty library returns at once
FetchItems ==
    /\ pc = "fetch"
    /\ pc' = IF Len(library) = 0 THEN "done" ELSE "loop"
    /\ idx' = 1
    /\ UNCHANGED <<library, disk, cache, session, dry_run, counters, history>>

\* lines 303, 460-464: library.all() raises; save the cache and re-raise
FetchFails ==
    /\ pc = "fetch"
    /\ \E w \in WriteOutcomes :
          /\ disk' = save_cache(disk, cache, w)
          /\ last_write' = w
          /\ failed_writes' = failed_writes + (IF w = "ok" THEN 0 ELSE 1)
    /\ last_flush' = 0
    /\ pc' = "raised"
    /\ UNCHANGED <<library, cache, session, dry_run, idx, counters,
                   library0, last, clean, skips, provider_calls,
                   provider_answers, edits, prev_run,
                   prev_would_update, trial>>

\* lines 319-322
NoMedia ==
    /\ InLoop
    /\ ~HasMedia
    /\ Skip("nomedia")
    /\ UNCHANGED <<cache, provider_calls, provider_answers>>

\* lines 324-331
NoId ==
    /\ InLoop
    /\ HasMedia
    /\ youtube_id = <<>>
    /\ Skip("noid")
    /\ UNCHANGED <<cache, provider_calls, provider_answers>>

\* lines 319, 439-442: reading the item raises (the server is asked again for
\* a field it has not sent); the handler of the loop body counts a failure
ItemRaises ==
    /\ InLoop
    /\ Skip("raised")
    /\ UNCHANGED <<cache, provider_calls, provider_answers>>

\* lines 334-337: the identifier is in the cache
CacheHit ==
    /\ InLoop
    /\ HasMedia
    /\ youtube_id # <<>>
    /\ get_cached_metadata(cache, youtube_id) # NoneValue
    /\ cache_hits' = cache_hits + 1
    /\ Apply(get_cached_metadata(cache, youtube_id), cache, TRUE)
    /\ UNCHANGED <<pc, session, dry_run, api_calls, library0,
                   provider_calls, provider_answers, prev_run,
                   prev_would_update, trial>>

\* lines 338-342, 126-151: a miss, and the provider answers with a snippet
ProviderOk ==
    /\ InLoop
    /\ HasMedia
    /\ youtube_id # <<>>
    /\ get_cached_metadata(cache, youtube_id) = NoneValue
    /\ LET metadata == MetadataOf(Snippet(youtube_id))
       IN  Apply(metadata, cache_metadata(cache, youtube_id, metadata), FALSE)
    /\ provider_calls' = [provider_calls EXCEPT ![youtube_id] = @ + 1]
    /\ provider_answers' = provider_answers \cup {youtube_id}
    /\ api_calls' = api_calls + 1
    /\ UNCHANGED <<pc, session, dry_run, cache_hits, library0, prev_run,
                   prev_would_update, trial>>

\* a failed lookup that remembers the failure in the cache
ProviderFails_Cached ==
    /\ InLoop
    /\ HasMedia
    /\ youtube_id # <<>>
    /\ get_cached_metadata(cache, youtube_id) = NoneValue
    /\ Skip("unavailable")
    /\ provider_calls' = [provider_calls EXCEPT ![youtube_id] = @ + 1]
    /\ cache' = cache_metadata(cache, youtube_id, NoneValue)
    /\ UNCHANGED provider_answers

\* lines 338-347, 134-136, 153-161: a miss, and the provider has no such
\* video or raises; get_youtube_metadata returns None
ProviderFails ==
    /\ InLoop
    /\ HasMedia
    /\ youtube_id # <<>>
    /\ get_cached_metadata(cache, youtube_id) = NoneValue
    /\ \E failure \in ProviderFailures : Skip("unavailable")
    /\ provider_calls' = [provider_calls EXCEPT ![youtube_id] = @ + 1]
    /\ UNCHANGED <<cache, provider_answers>>

\* the end of the loop without the final save
Finish_NoSave ==
    /\ pc = "loop"
    /\ idx > Len(library)
    /\ pc' = "done"
    /\ UNCHANGED <<library, disk, cache, session, dry_run, idx, counters, history>>

\* lines 444-446: the loop is over; final save
Finish ==
    /\ pc = "loop"
    /\ idx > Len(library)
    /\ \E w \in WriteOutcomes :
          /\ disk' = save_cache(disk, cache, w)
          /\ last_write' = w
          /\ failed_writes' = failed_writes + (IF w = "ok" THEN 0 ELSE 1)
    /\ cache_saves' = cache_saves + 1
    /\ last_flush' = Len(library)
    /\ pc' = "done"
    /\ UNCHANGED <<library, cache, session, dry_run, idx, processed_count,
                   updated_count, failed_count, cache_hits, api_calls,
                   library0, last, clean, skips, provider_calls,
                   provider_answers, edits, prev_run,
                   prev_would_update, trial>>

\* lines 439, 460, 552: KeyboardInterrupt between two items is no Exception;
\* it passes both handlers of process_library_items and reaches main
Interrupt ==
    /\ pc = "loop"
    /\ idx > 1
    /\ pc' = "interrupted"
    /\ UNCHANGED <<library, disk, cache, session, dry_run, idx, counters, history>>

Next ==
    \/ Call
    \/ LoadCache
    \/ FetchItems
    \/ FetchFails
    \/ NoMedia
    \/ NoId
    \/ ItemRaises
    \/ CacheHit
    \/ ProviderOk
    \/ ProviderFails
    \/ Finish
    \/ Interrupt

Spec == Init /\ [][Next]_vars

SpecLong == InitLong /\ [][Next]_vars

SpecLoss == InitLoss /\ [][Next]_vars

\* ------------------------------------------------- the helpers on their own
\* file paths: none; the three of the libraries; an identifier in parentheses;
\* before .mp4 and .avi; both in parentheses and in brackets; after an
\* underscore and in brackets; no identifier; ten characters in brackets;
\* an identifier before another extension; a directory
TrialPaths ==
    { <<>>, PathA, PathB, PathNoId,
      <<"x", "(">> \o IdA \o <<")">>,
      <<"_">> \o IdB \o <<".", "m", "p", "4">>,
      <<"d", "/", "_">> \o IdA \o <<".", "a", "v", "i">>,
      <<"(">> \o IdA \o <<")", "[">> \o IdB \o <<"]">>,
      <<"_">> \o IdA \o <<".", "m", "p", "4", "[">> \o IdB \o <<"]">>,
      <<"a", ".", "m", "p", "4">>,
      <<"[">> \o SubSeq(IdA, 1, IdLen - 1) \o <<"]">>,
      <<"_">> \o IdA \o <<".", "m", "o", "v">>,
      <<"[">> \o IdA \o <<"]", "/">> }

TrialChannels == { <<"A", "B", "/", "C", "D">>, <<"C">>, <<" ", "x", " ", " ", "y", " ">> }

TrialTitles ==
    { <<"T", "i", "t", "l", "e", ":", " ", "O", "n", "e">>,
      <<"U">>, <<"a", "?", "b", "*">>, <<"T", ":", "1">>, <<"a", "\t", "\n", "b">> }

\* wall-clock hours and UTC offsets (whole hours) written in a published_at
TrialHours == {3, 12, 22}
TrialOffsets == {-5, 5}

PublishedAts ==
    { [form |-> "empty", day |-> 0, hour |-> 0, off |-> 0],
      [form |-> "garbage", day |-> 0, hour |-> 0, off |-> 0] }
    \cup {[form |-> "zulu", day |-> dd, hour |-> h, off |-> 0] :
             dd \in 1..MaxDay, h \in TrialHours}
    \cup {[form |-> "offset", day |-> dd, hour |-> h, off |-> o] :
             dd \in 1..MaxDay, h \in TrialHours, o \in TrialOffsets}

\* the item's originallyAvailableAt: None or a day
CurrentDates == {NoDate} \cup 1..MaxDay

TrialItem(date) == Item(TRUE, PathB, TitleB, <<>>, date)
TrialMetadata(published_at) ==
    [MetadataOf(Snippet(IdB)) EXCEPT !.published_at = published_at]

\* extract_youtube_id(file_path)
ExtractYoutubeId ==
    /\ \E file_path \in TrialPaths :
          trial' = [fn       |-> "extract_youtube_id",
                    path     |-> file_path,
                    result   |-> extract_youtube_id(file_path),
                    warnings |-> extract_youtube_id_warnings(file_path)]
    /\ UNCHANGED <<library, disk, cache, pc, session, dry_run, idx, counters,
                   library0, last, clean, skips, provider_calls,
                   provider_answers, edits, last_flush, last_write,
                   failed_writes, prev_run, prev_would_update>>

\* create_new_title(channel_name, video_title)
CreateNewTitle ==
    /\ \E channel_name \in TrialChannels, video_title \in TrialTitles :
          trial' = [fn      |-> "create_new_title",
                    channel |-> channel_name,
                    title   |-> video_title,
                    channel_clean |-> sanitize_filename(channel_name),
                    title_clean   |-> sanitize_filename(video_title),
                    result  |-> create_new_title(channel_name, video_title)]
    /\ UNCHANGED <<library, disk, cache, pc, session, dry_run, idx, counters,
                   library0, last, clean, skips, provider_calls,
                   provider_answers, edits, last_flush, last_write,
                   failed_writes, prev_run, prev_would_update>>

\* lines 349-407 for one item and one metadata: the flags, and the item
\* after a live update in which no call throws
DetectChanges ==
    /\ \E date \in CurrentDates, published_at \in PublishedAts :
          LET item == TrialItem(date)
              metadata == TrialMetadata(published_at)
              d == Decide(item, metadata)
              calls == MutationCalls(d, metadata)
          IN  trial' = [fn       |-> "decide",
                        item     |-> item,
                        metadata |-> metadata,
                        d        |-> d,
                        calls    |-> calls,
                        after    |-> AfterUpdate(item, metadata, calls, 0)]
    /\ UNCHANGED <<library, disk, cache, pc, session, dry_run, idx, counters,
                   library0, last, clean, skips, provider_calls,
                   provider_answers, edits, last_flush, last_write,
                   failed_writes, prev_run, prev_would_update>>

InitPure ==
    /\ library = <<>>
    /\ session = "second"
    /\ InitCommon
    /\ disk.kind = "missing"

NextPure ==
    \/ ExtractYoutubeId
    \/ CreateNewTitle
    \/ DetectChanges

\* the helpers applied to inputs of their own
SpecPure == InitPure /\ [][NextPure]_vars

TypeOK ==
    /\ pc \in {"idle", "start", "fetch", "loop", "done", "raised", "interrupted"}
    /\ DOMAIN cache \subseteq Ids
    /\ idx \in 0..(Len(library) + 1)
    /\ last.i \in 0..Len(library)

\* =================================================================== claims
InRun == pc \in {"loop", "done", "interrupted"}

\* the identifier of the item handled last
LastId == extract_youtube_id(library[last.i].file)

\* -------------------------------------------------------------------- C1
\* C1 as stated: within one run the provider is never invoked twice for the
\* same identifier.
C1_NeverTwice == \A v \in Ids : provider_calls[v] <= 1

\* C1, amended: within one run the provider is never invoked for an
\* identifier that is in the cache, and every identifier it answered with a
\* video is in the cache; so after its first successful lookup an identifier
\* is always answered by the cache.  (A lookup that failed is repeated.)
C1_NoCallOnceCached ==
    [][pc = "loop" =>
         \A v \in Ids :
            /\ v \in DOMAIN cache => provider_calls'[v] = provider_calls[v]
            /\ v \in provider_answers' => v \in DOMAIN cache']_vars

\* an identifier the provider answered once was then served from the cache
C1_Witness ==
    /\ pc = "loop"
    /\ last.i > 1
    /\ last.hit
    /\ LastId \in provider_answers
    /\ provider_calls[LastId] = 1

\* -------------------------------------------------------------------- C2
\* C2: a provider lookup that ends in not-found or in an error leaves the
\* in-memory cache as it was, and the identifier is still absent from it, so
\* its next lookup goes to the provider again.
C2_FailedLookupKeepsCache ==
    [][(pc = "loop" /\ last'.i = idx /\ last'.res = "unavailable") =>
         /\ cache' = cache
         /\ extract_youtube_id(library[idx].file) \notin DOMAIN cache']_vars

\* a lookup failed after another lookup of the same identifier had failed
C2_Witness ==
    /\ pc = "loop"
    /\ last.res = "unavailable"
    /\ provider_calls[LastId] = 2
    /\ LastId \notin DOMAIN cache

\* -------------------------------------------------------------------- C3
\* items that reached DONE or FAILED so far in the loop
Handled == idx - 1

\* C3 as stated: each time the number of items that reached DONE or FAILED
\* becomes a multiple of 10 the cache is flushed before the next item starts,
\* and after a successful write the document holds every identifier resolved.
C3_FlushEveryTenHandled ==
    (pc = "loop" /\ Handled > 0 /\ Handled % CheckpointEvery = 0) =>
        /\ last_flush = Handled
        /\ last_write = "ok" => provider_answers \subseteq DOMAIN disk.entries

\* C3, amended: each time the processed counter (the items whose metadata was
\* obtained, whether or not their update then failed; skipped items are not
\* counted) becomes a multiple of 10, save_cache is called before the next
\* item starts, and when that write succeeds the document equals the
\* in-memory cache and so holds every identifier resolved so far.
C3_FlushEveryTenProcessed ==
    [][(processed_count' = processed_count + 1
          /\ processed_count' % CheckpointEvery = 0) =>
         /\ cache_saves' = cache_saves + 1
         /\ last_flush' = Handled + 1
         /\ last_write' = "ok" =>
               /\ disk' = Doc("map", cache')
               /\ provider_answers' \subseteq DOMAIN disk'.entries]_vars

\* ten items were processed, one of them resolved by the provider, and the
\* checkpoint wrote the cache
C3_Witness ==
    /\ pc = "loop"
    /\ processed_count = CheckpointEvery
    /\ last_flush = Handled
    /\ last_write = "ok"
    /\ provider_answers # {}
    /\ disk = Doc("map", cache)

\* -------------------------------------------------------------------- C4
\* C4 as stated: every normal completion is preceded by a flush issued after
\* the last item was handled, for every collection size, the empty one too.
C4_FlushBeforeEveryReturn ==
    pc = "done" => (cache_saves >= 1 /\ last_flush = Len(library))

\* C4, amended: every normal completion over a collection that is not empty
\* is preceded by a flush issued after the last item was handled; over an
\* empty collection the run returns without any flush.
C4_FlushBeforeReturnUnlessEmpty ==
    pc = "done" =>
        IF Len(library) = 0
        THEN cache_saves = 0 /\ last_flush = -1
        ELSE cache_saves >= 1 /\ last_flush = Len(library)

\* a run over eleven items ended: one checkpoint save and the final save
C4_Witness ==
    /\ pc = "done"
    /\ Len(library) = CheckpointEvery + 1
    /\ processed_count = Len(library)
    /\ cache_saves = 2
    /\ last_flush = Len(library)

\* -------------------------------------------------------------------- C5
\* C5: when an error aborts the whole run, save_cache has been called before
\* the error leaves process_library_items.
C5_FlushBeforeRaise == pc = "raised" => last_flush >= 0

\* -------------------------------------------------------------------- C6
\* C6: when an interrupt arrives between two items, the cache is flushed
\* before control leaves process_library_items, so every identifier resolved
\* before the interrupt is in the persisted document.
C6_FlushOnInterrupt ==
    (pc = "interrupted" /\ provider_answers # {}) =>
        /\ last_flush = Handled
        /\ last_write = "ok" => provider_answers \subseteq DOMAIN disk.entries

\* -------------------------------------------------------------------- C7
\* items on which a mutation call threw, and items with a call that succeeded
Threw == {e.i : e \in {x \in edits : ~x.ok}}
Mutated == {e.i : e \in {x \in edits : x.ok}}

\* the value a mutation call of the given field sends for a video
Sent(video_id, field) ==
    LET m == MetadataOf(Snippet(video_id))
    IN  CASE field = "title"        -> create_new_title(m.channel_name, m.title)
          [] field = "summary"      -> m.description
          [] field = "publish date" -> DateOf(parse_youtube_date(m.published_at))

FieldOf(item, field) ==
    CASE field = "title"        -> item.title
      [] field = "summary"      -> item.summary
      [] field = "publish date" -> item.originallyAvailableAt

\* C7: in live mode, when a mutation call of exactly one item k throws and
\* every other item is resolved and mutated without failure, the run goes on
\* with the next item, the failed counter is 1, every item is processed,
\* item k is not counted as updated, the calls of item k that succeeded
\* before the throw keep their effect, and the updated counter is the number
\* of other items that were mutated.
C7_OneMutationFailure ==
    /\ [](( ~dry_run /\ InRun /\ skips = 0 /\ Cardinality(Threw) = 1) =>
            LET k == CHOOSE i \in Threw : TRUE
            IN  /\ failed_count = 1
                /\ processed_count = Handled
                /\ updated_count = Cardinality(Mutated \ {k})
                /\ \A e \in edits :
                       (e.i = k /\ e.ok) =>
                          FieldOf(library[k], e.field)
                             = Sent(extract_youtube_id(library[k].file), e.field))
    /\ [][(pc = "loop" /\ Threw' # Threw) => (pc' = "loop" /\ idx' = idx + 1)]_vars

\* a live run over two items ended; the second call of the first item threw
\* and the second item was updated
C7_Witness ==
    /\ pc = "done"
    /\ ~dry_run
    /\ skips = 0
    /\ Len(library) = 2
    /\ Threw = {1}
    /\ [i |-> 1, field |-> "title", ok |-> TRUE] \in edits
    /\ library[1].title # library0[1].title
    /\ Mutated = {1, 2}
    /\ updated_count = 1
    /\ failed_count = 1

\* -------------------------------------------------------------------- C8
SecondLiveRun ==
    session = "second" /\ prev_run \in {"clean", "hydrated"} /\ ~dry_run /\ InRun

\* C8 as stated: a second live run after a live run without failure issues
\* no mutation call and finds every decision flag false.
C8_SecondRunAllFlagsFalse ==
    SecondLiveRun =>
        /\ edits = {}
        /\ ~last.title_changed /\ ~last.summary_changed /\ ~last.date_changed

\* C8, amended: a second live run after a live run without failure issues no
\* mutation call and counts no item as updated; the title and date flags of
\* every item are false, and the summary flag is false except for an item
\* that has a summary while its video's description is empty (no call is
\* issued for it, so the flag stays true run after run).
C8_SecondRunNoMutation ==
    SecondLiveRun =>
        /\ edits = {}
        /\ updated_count = 0
        /\ ~last.title_changed /\ ~last.date_changed
        /\ last.summary_changed =>
              /\ Snippet(LastId).description = <<>>
              /\ library[last.i].summary # <<>>

\* the first run issued mutation calls; the second run handled two items
\* and found the summary flag of the second still true
C8_Witness ==
    /\ SecondLiveRun
    /\ pc = "done"
    /\ prev_run = "hydrated"
    /\ processed_count = 2
    /\ library[1].title = TitleA
    /\ last.summary_changed

\* -------------------------------------------------------------------- C9
\* C9: in dry-run mode no mutation call is issued, every library item keeps
\* its fields, and each item with a changed field adds one to the updated
\* (would-update) counter.
C9_DryRunNoMutation ==
    /\ [](dry_run => (edits = {} /\ library = library0))
    /\ [][(dry_run /\ pc = "loop" /\ idx' = idx + 1) =>
            updated_count' = updated_count
               + (IF last'.title_changed \/ last'.summary_changed
                     \/ last'.date_changed THEN 1 ELSE 0)]_vars

\* a dry run over two items that both need an update ended
C9_Witness ==
    /\ pc = "done"
    /\ dry_run
    /\ Len(library) = 2
    /\ updated_count = 2
    /\ last.title_changed
    /\ edits = {}
    /\ library = library0

\* ------------------------------------------------------------------- C10
\* C10: loading the cache never raises; a document that is missing,
\* unreadable or malformed gives an empty mapping and the run goes on.
C10_LoadNeverRaises ==
    [][pc = "start" =>
         /\ pc' = "fetch"
         /\ disk.kind # "map" => cache' = EmptyMap]_vars

\* ------------------------------------------------------------------- C11
\* C11: a cache write that fails at a checkpoint is not propagated: the loop
\* goes on with the next item, the in-memory cache is the cache after the
\* item's lookup, and the counters other than the flush count move as the
\* item's own result says; and every later write that succeeds leaves the
\* document equal to the whole in-memory cache, which has lost no entry.
C11_FailedCheckpointWrite ==
    /\ [][(pc = "loop" /\ idx <= Len(library)
             /\ cache_saves' = cache_saves + 1 /\ last_write' # "ok") =>
            LET v == extract_youtube_id(library[idx].file)
            IN  /\ pc' = "loop"
                /\ idx' = idx + 1
                /\ failed_writes' = failed_writes + 1
                /\ cache' = IF last'.hit THEN cache
                            ELSE cache_metadata(cache, v, MetadataOf(Snippet(v)))
                /\ processed_count' = processed_count + 1
                /\ updated_count' = updated_count
                      + (IF last'.res \in {"updated", "wouldupdate"} THEN 1 ELSE 0)
                /\ failed_count' = failed_count
                      + (IF last'.res = "mutfail" THEN 1 ELSE 0)
                /\ cache_hits' = cache_hits + (IF last'.hit THEN 1 ELSE 0)
                /\ api_calls' = api_calls + (IF last'.hit THEN 0 ELSE 1)]_vars
    /\ [][(pc = "loop" /\ last_flush' # last_flush /\ last_write' = "ok") =>
            /\ disk' = Doc("map", cache')
            /\ \A v \in DOMAIN cache :
                  v \in DOMAIN disk'.entries /\ disk'.entries[v] = cache[v]
            /\ provider_answers' \subseteq DOMAIN disk'.entries]_vars

\* the write of the checkpoint after ten items failed, the run went on with
\* the eleventh, and the final write persisted the cache
C11_Witness ==
    /\ pc = "done"
    /\ processed_count = CheckpointEvery + 1
    /\ cache_saves = 2
    /\ failed_writes = 1
    /\ last_write = "ok"
    /\ provider_answers # {}
    /\ disk = Doc("map", cache)

\* ------------------------------------------------------------------- C12
\* C12: within a run (after the cache is loaded) the in-memory cache maps
\* each identifier to at most one entry, no step removes an entry, an entry
\* is written only in a step where the provider answered for that identifier
\* (the identifier of the item being handled), and every other entry is
\* left as it was.
C12_CacheEntries ==
    [][(pc = "fetch" \/ pc = "loop") =>
         /\ Cardinality(DOMAIN cache') <= Cardinality(DOMAIN cache) + 1
         /\ \A v \in DOMAIN cache : v \in DOMAIN cache'
         /\ \A v \in DOMAIN cache' :
               IF v \in DOMAIN cache THEN cache'[v] = cache[v]
               ELSE /\ InLoop
                    /\ v = extract_youtube_id(library[idx].file)
                    /\ provider_calls'[v] = provider_calls[v] + 1
                    /\ v \in provider_answers'
                    /\ cache'[v] = MetadataOf(Snippet(v))]_vars

\* a second run loaded the entry of video A, served it from the cache, and
\* added the entry of video B from the provider's answer
C12_Witness ==
    /\ session = "second"
    /\ pc = "done"
    /\ DOMAIN cache = {IdA, IdB}
    /\ provider_calls[IdA] = 0
    /\ provider_calls[IdB] = 1
    /\ cache_hits = 1
    /\ cache[IdA] = MetadataOf(Snippet(IdA))

\* ------------------------------------------------------------------- C13
\* none of the five rules matches the file name of the path
NoRuleMatches(file_path) ==
    \A k \in 1..Len(patterns) : Search(Basename(file_path), patterns[k]) = 0

\* C13 as stated: on every path whose file name matches none of the five
\* rules, an absent or empty path included, extract_youtube_id returns None
\* and emits exactly one warning.
C13_NoMatchWarnsOnce ==
    (trial.fn = "extract_youtube_id" /\ NoRuleMatches(trial.path)) =>
        (trial.result = <<>> /\ trial.warnings = 1)

\* C13, amended: on every path that is not empty and whose file name matches
\* none of the five rules, extract_youtube_id returns None and emits exactly
\* one warning; on an absent or empty path it returns None and emits none.
C13_NoMatchWarnsUnlessEmpty ==
    (trial.fn = "extract_youtube_id" /\ NoRuleMatches(trial.path)) =>
        /\ trial.result = <<>>
        /\ trial.warnings = (IF trial.path = <<>> THEN 0 ELSE 1)

\* a path whose directory holds an identifier and whose file name holds none
C13_Witness ==
    /\ trial.fn = "extract_youtube_id"
    /\ trial.path = PathNoId
    /\ NoRuleMatches(trial.path)
    /\ trial.result = <<>>
    /\ trial.warnings = 1

\* ------------------------------------------------------------------- C14
ExampleChannel == <<"A", "B", "/", "C", "D">>
ExampleTitle == <<"T", "i", "t", "l", "e", ":", " ", "O", "n", "e">>

\* C14 as stated: create_new_title("AB/CD", "Title: One") is
\* "AB-CD - Title -One": the channel sanitizes to "AB-CD" and the title to
\* "Title -One".
C14_ExampleAsStated ==
    (trial.fn = "create_new_title" /\ trial.channel = ExampleChannel
        /\ trial.title = ExampleTitle) =>
        /\ trial.channel_clean = <<"A", "B", "-", "C", "D">>
        /\ trial.title_clean = <<"T", "i", "t", "l", "e", " ", "-", "O", "n", "e">>
        /\ trial.result = <<"A", "B", "-", "C", "D", " ", "-", " ",
                            "T", "i", "t", "l", "e", " ", "-", "O", "n", "e">>

\* C14, amended: create_new_title("AB/CD", "Title: One") is
\* "AB-CD - Title - One": the channel sanitizes to "AB-CD", the title to
\* "Title - One" (the colon becomes " -" and the space after it stays), and
\* the two are joined with " - ".
C14_ExampleAsComputed ==
    (trial.fn = "create_new_title" /\ trial.channel = ExampleChannel
        /\ trial.title = ExampleTitle) =>
        /\ trial.channel_clean = <<"A", "B", "-", "C", "D">>
        /\ trial.title_clean =
              <<"T", "i", "t", "l", "e", " ", "-", " ", "O", "n", "e">>
        /\ trial.result = trial.channel_clean \o <<" ", "-", " ">> \o trial.title_clean
        /\ trial.result = <<"A", "B", "-", "C", "D", " ", "-", " ",
                            "T", "i", "t", "l", "e", " ", "-", " ", "O", "n", "e">>

\* create_new_title was applied to the example
C14_Witness ==
    /\ trial.fn = "create_new_title"
    /\ trial.channel = ExampleChannel
    /\ trial.title = ExampleTitle
    /\ Len(trial.result) = 19

\* ------------------------------------------------------------------- C15
\* C15: for every item state, the date flag is false when published_at is
\* empty or does not parse; it is true when published_at parses and the item
\* has no current date; otherwise it is true exactly when the calendar date
\* written in published_at differs from the item's current calendar date.
C15_DateChanged ==
    trial.fn = "decide" =>
        LET published_at == trial.metadata.published_at
            current_date == trial.item.originallyAvailableAt
        IN  trial.d.date_changed =
               (IF published_at.form \in {"empty", "garbage"} THEN FALSE
                ELSE IF current_date = NoDate THEN TRUE
                ELSE published_at.day # current_date)

\* a published_at with an offset parsed, the item had another date, and the
\* flag is true
C15_Witness ==
    /\ trial.fn = "decide"
    /\ trial.metadata.published_at.form = "offset"
    /\ trial.item.originallyAvailableAt # NoDate
    /\ trial.item.originallyAvailableAt # trial.metadata.published_at.day
    /\ trial.d.date_changed

\* ------------------------------------------------------------------- C16
\* the item handled last asked the provider (a miss, whatever the answer)
LastAskedProvider ==
    \/ last.res = "unavailable"
    \/ last.res \in {"updated", "nochange", "wouldupdate", "mutfail"} /\ ~last.hit

\* C16: after an item that required a live provider call, whatever the
\* provider's outcome, the delay is taken before the next item starts (and so
\* before its provider call); after an item served from the cache, or one
\* that asked nothing, no delay is taken.
C16_DelayAfterEveryLiveCall ==
    (InRun /\ last.i > 0) => (last.slept <=> LastAskedProvider)

\* ------------------------------------------------------------------- C17
\* C17: in live mode, when an item is handled, set-title is called only if
\* the item's title differs from the composed title, set-summary only if the
\* summary differs from the description and the description is not empty,
\* set-date only if published_at parses and the item has no date or another
\* date; an item whose metadata was obtained and that has no changed field
\* gets no call and is counted as processed but not as updated.
C17_CallsOnlyForChangedFields ==
    [][(pc = "loop" /\ ~dry_run /\ idx' = idx + 1) =>
         LET item   == library[idx]
             m      == MetadataOf(Snippet(extract_youtube_id(item.file)))
             dt     == parse_youtube_date(m.published_at)
             fields == {e.field : e \in edits' \ edits}
             title_differs   == item.title # create_new_title(m.channel_name, m.title)
             summary_differs == item.summary # m.description
             date_differs    ==
                 /\ dt # NoneValue
                 /\ (item.originallyAvailableAt = NoDate
                       \/ item.originallyAvailableAt # DateOf(dt))
         IN  /\ \A e \in edits' \ edits : e.i = idx
             /\ "title" \in fields => title_differs
             /\ "summary" \in fields => (summary_differs /\ m.description # <<>>)
             /\ "publish date" \in fields => date_differs
             /\ ( /\ last'.res \notin {"nomedia", "noid", "raised", "unavailable"}
                  /\ ~title_differs /\ ~summary_differs /\ ~date_differs ) =>
                    /\ edits' = edits
                    /\ library' = library
                    /\ processed_count' = processed_count + 1
                    /\ updated_count' = updated_count]_vars

\* a live run updated an item whose title and summary both differed and
\* whose video has an empty description: set-title was the only call
C17_Witness ==
    /\ InRun
    /\ ~dry_run
    /\ last.i > 0
    /\ last.res = "updated"
    /\ last.title_changed
    /\ last.summary_changed
    /\ {e.field : e \in {x \in edits : x.i = last.i}} = {"title"}

\* ------------------------------------------------------------------- C18
\* C18: an item without a media file or without an identifier in its file
\* name causes no provider call and no mutation call; an item whose lookup
\* returns None causes no mutation call; each such item adds exactly one to
\* the failed counter and nothing to the processed and updated counters, and
\* the loop goes on with the next item.
C18_UnusableItemsOnlyFail ==
    [][(pc = "loop" /\ idx' = idx + 1) =>
         LET item     == library[idx]
             unusable == ~item.media \/ extract_youtube_id(item.file) = <<>>
         IN  /\ unusable => /\ provider_calls' = provider_calls
                            /\ api_calls' = api_calls
                            /\ cache_hits' = cache_hits
                            /\ last'.res \in {"nomedia", "noid", "raised"}
             /\ (unusable \/ last'.res = "unavailable") =>
                   /\ edits' = edits
                   /\ library' = library
                   /\ failed_count' = failed_count + 1
                   /\ processed_count' = processed_count
                   /\ updated_count' = updated_count
                   /\ pc' = "loop"]_vars

\* a run over an item without identifier and an item whose lookup failed
\* ended with two failures and nothing processed
C18_Witness ==
    /\ pc = "done"
    /\ Len(library) = 2
    /\ library[1].file = PathNoId
    /\ last.res = "unavailable"
    /\ provider_calls[LastId] = 1
    /\ failed_count = 2
    /\ processed_count = 0
    /\ updated_count = 0
    /\ edits = {}

\* ------------------------------------------------------------------- C19
\* times the provider was invoked in the run
ProviderInvocations == provider_calls[IdA] + provider_calls[IdB]

\* items whose metadata came from the cache: the processed items but for
\* the ones the provider answered (one per identifier answered)
ServedFromCache == processed_count - Cardinality(provider_answers)

\* C19: when a run has completed, the provider-calls counter is the number
\* of times the provider was invoked in the run, and the cache-hits counter
\* is the number of items whose metadata came from the cache.
C19_CountersMatchCalls ==
    pc = "done" =>
        /\ api_calls = ProviderInvocations
        /\ cache_hits = ServedFromCache

\* ------------------------------------------------------------------- C20
\* the instant of a parsed datetime in UTC: its hour and its calendar day
UtcHour(dt) == (dt.hour - dt.off) % 24
UtcDay(dt) ==
    dt.day + (IF dt.hour - dt.off < 0 THEN -1
              ELSE IF dt.hour - dt.off >= 24 THEN 1 ELSE 0)

SameInstant(dt1, dt2) == UtcDay(dt1) = UtcDay(dt2) /\ UtcHour(dt1) = UtcHour(dt2)

\* C20: when published_at parses, the date compared with the item's date and
\* sent by the set-date call is the calendar date of the instant in UTC, and
\* every other published_at that denotes the same instant gives the same
\* date and the same date flag.
C20_DateIsUtcDate ==
    (trial.fn = "decide"
        /\ parse_youtube_date(trial.metadata.published_at) # NoneValue) =>
        LET dt == parse_youtube_date(trial.metadata.published_at)
            current_date == trial.item.originallyAvailableAt
        IN  /\ trial.d.date_changed =
                  (current_date = NoDate \/ current_date # UtcDay(dt))
            /\ trial.d.date_changed => trial.after.originallyAvailableAt = UtcDay(dt)
            /\ \A other \in PublishedAts :
                  (parse_youtube_date(other) # NoneValue
                      /\ SameInstant(parse_youtube_date(other), dt)) =>
                     /\ DateOf(parse_youtube_date(other)) = DateOf(dt)
                     /\ Decide(trial.item, TrialMetadata(other)).date_changed
                           = trial.d.date_changed

\* ------------------------------------------------------------------- C21
\* a live run that skipped no item and in which no mutation call threw has
\* ended, after a dry run over the same library that skipped no item
LiveAfterDry ==
    /\ session = "second"
    /\ prev_would_update >= 0
    /\ ~dry_run
    /\ pc = "done"
    /\ clean

\* C21: over the same library and the same metadata, with no mutation call
\* failing, the live run counts as updated as many items as the dry run
\* counted as would-update.
C21_DryRunPredictsLive == LiveAfterDry => updated_count = prev_would_update

\* ------------------------------------------------------------------- C22
\* identifiers in the in-memory cache that the persisted document lacks
Unsaved ==
    {v \in DOMAIN cache : ~(disk.kind = "map" /\ v \in DOMAIN disk.entries)}

====
